---- MODULE Spec2Model ----
(***************************************************************************)
(* Score persistence and aggregation service of the snake game backend:    *)
(* backend/app/routers/scores.py (the handlers), backend/app/schemas.py    *)
(* (request validation), backend/app/models.py (the scores table) and      *)
(* backend/app/database.py (the SQLite session).                           *)
(*                                                                         *)
(* Spec     : one worker; every handler is an `async def` without an await *)
(*            in its body, so a handler runs to completion on the event    *)
(*            loop and is one action.                                      *)
(* SpecConc : several workers on the same SQLite file; a handler is a      *)
(*            sequence of SQL statements and the workers interleave        *)
(*            between statements.                                          *)
(*                                                                         *)
(* Representation: Optional[str] is <<>> (None) or <<s>>; an SQL scalar is *)
(* <<>> (NULL) or <<v>>; average_score is kept in tenths (3 means 0.3);    *)
(* created_at is a logical clock.                                          *)
(***************************************************************************)
EXTENDS Integers, Sequences, FiniteSets, TLC

VARIABLES store, resp, pc, loc, returned

vars == <<store, resp, pc, loc, returned>>

(* ------------------------------ bounds -------------------------------- *)

MaxRecords == 4

MaxLimit == 3

MaxConcRecords == 2

(* ------------------------- program constants -------------------------- *)

MaxNameLen == 100

DefaultSnakeLength == 3

DefaultDuration == 0

DefaultLimit == 10

DefaultPlayerName == "Player"

None == <<>>

Some(v) == <<v>>

Ten == "aaaaaaaaaa"

Name100 == Ten \o Ten \o Ten \o Ten \o Ten \o Ten \o Ten \o Ten \o Ten \o Ten

Name101 == Name100 \o "a"

(* ----------------------------- inputs --------------------------------- *)

(* JSON bodies of POST /api/scores; a field that is not in the record was  *)
(* omitted by the client.                                                  *)
Requests ==
    { [score |-> 0],
      [score |-> 1, player_name |-> None],
      [score |-> 2, snake_length |-> 4, duration_seconds |-> 5,
       player_name |-> Some("")],
      [score |-> 1, snake_length |-> 1, duration_seconds |-> 2,
       player_name |-> Some(Name100)],
      [score |-> -1],
      [score |-> 0, snake_length |-> 0],
      [score |-> 0, duration_seconds |-> -1],
      [score |-> 0, player_name |-> Some(Name101)],
      [snake_length |-> 3] }

(* The bodies the interleaved workers receive.                             *)
ConcRequests ==
    { [score |-> 0],
      [score |-> 2, snake_length |-> 4, duration_seconds |-> 5,
       player_name |-> Some("")],
      [score |-> -1] }

(* ?limit= of GET /api/leaderboard; <<>> when the parameter is omitted.    *)
LimitParams == {None} \cup { Some(l) : l \in (0 - MaxLimit)..MaxLimit }

(* Where the storage layer may raise inside create_score.                  *)
Faults == {"none", "add", "commit", "refresh"}

(* ------------------------ schemas.py: ScoreCreate ---------------------- *)

Given(raw, f) == f \in DOMAIN raw

(* Mutant: the ge=0 bound of score is missing.                             *)
ScoreErrorsNoBound(raw) ==
    IF ~Given(raw, "score") THEN {"score"} ELSE {}

ScoreErrors(raw) ==
    IF ~Given(raw, "score") \/ raw.score < 0 THEN {"score"} ELSE {}

SnakeLengthErrors(raw) ==
    IF Given(raw, "snake_length") /\ raw.snake_length < 1
    THEN {"snake_length"} ELSE {}

DurationErrors(raw) ==
    IF Given(raw, "duration_seconds") /\ raw.duration_seconds < 0
    THEN {"duration_seconds"} ELSE {}

PlayerNameErrors(raw) ==
    IF /\ Given(raw, "player_name")
       /\ raw.player_name # None
       /\ Len(raw.player_name[1]) > MaxNameLen
    THEN {"player_name"} ELSE {}

(* The fields pydantic rejects; the request is valid when there is none.   *)
ValidationErrors(raw) ==
    ScoreErrors(raw) \cup SnakeLengthErrors(raw)
        \cup DurationErrors(raw) \cup PlayerNameErrors(raw)

(* score_data.model_dump(): the validated fields, defaults filled in.      *)
ModelDump(raw) ==
    [ score |-> raw.score,
      snake_length |->
          IF Given(raw, "snake_length") THEN raw.snake_length
          ELSE DefaultSnakeLength,
      duration_seconds |->
          IF Given(raw, "duration_seconds") THEN raw.duration_seconds
          ELSE DefaultDuration,
      player_name |->
          IF Given(raw, "player_name") THEN raw.player_name
          ELSE Some(DefaultPlayerName) ]

(* -------------------------- models.py: Score --------------------------- *)

RECURSIVE MaxId(_)
MaxId(rows) ==
    IF rows = <<>> THEN 0
    ELSE LET m == MaxId(Tail(rows))
         IN IF Head(rows).id > m THEN Head(rows).id ELSE m

(* Mutant: the largest id in use is handed out again.                      *)
NextIdNoIncrement(rows) == IF rows = <<>> THEN 1 ELSE MaxId(rows)

(* INTEGER PRIMARY KEY of SQLite: one more than the largest id in use.     *)
NextId(rows) == MaxId(rows) + 1

(* default=datetime.utcnow, as a logical clock that ticks with each row.   *)
UtcNow(rows) == Len(rows) + 1

(* The row the INSERT of the flush writes for the new Score: a None        *)
(* attribute of a column with a default takes the default.                 *)
InsertRow(rows, dump) ==
    [ id |-> NextId(rows),
      player_name |->
          IF dump.player_name = None THEN DefaultPlayerName
          ELSE dump.player_name[1],
      score |-> dump.score,
      snake_length |-> dump.snake_length,
      duration_seconds |-> dump.duration_seconds,
      created_at |-> UtcNow(rows) ]

(* ------------------- the scores table, as SQLite reads it -------------- *)

Min(a, b) == IF a < b THEN a ELSE b

(* Mutant: a sort that puts a row before the earlier rows of equal score.  *)
RECURSIVE OrderByScoreDescUnstable(_)
OrderByScoreDescUnstable(rows) ==
    IF rows = <<>> THEN <<>>
    ELSE LET n == Len(rows)
             sorted == OrderByScoreDescUnstable(SubSeq(rows, 1, n - 1))
             r == rows[n]
             k == Cardinality({ i \in 1..Len(sorted) :
                                    sorted[i].score > r.score })
         IN SubSeq(sorted, 1, k) \o <<r>> \o SubSeq(sorted, k + 1, Len(sorted))

(* ORDER BY score DESC over a scan in rowid order: the sorter keeps rows   *)
(* of equal score in scan order.                                           *)
RECURSIVE OrderByScoreDesc(_)
OrderByScoreDesc(rows) ==
    IF rows = <<>> THEN <<>>
    ELSE LET n == Len(rows)
             sorted == OrderByScoreDesc(SubSeq(rows, 1, n - 1))
             r == rows[n]
             k == Cardinality({ i \in 1..Len(sorted) :
                                    sorted[i].score >= r.score })
         IN SubSeq(sorted, 1, k) \o <<r>> \o SubSeq(sorted, k + 1, Len(sorted))

(* LIMIT n: a negative n is no limit in SQLite.                            *)
SqlLimit(rows, n) ==
    IF n < 0 THEN rows ELSE SubSeq(rows, 1, Min(n, Len(rows)))

(* db.query(Score).order_by(Score.score.desc()).limit(limit).all()         *)
TopByScore(rows, limit) == SqlLimit(OrderByScoreDesc(rows), limit)

(* func.count(Score.id)                                                    *)
SqlCount(rows) == Some(Len(rows))

(* Mutant: min() where max() is meant.                                     *)
RECURSIVE SqlMinOf(_, _)
SqlMinOf(rows, col) ==
    IF rows = <<>> THEN None
    ELSE LET m == SqlMinOf(Tail(rows), col)
             v == Head(rows)[col]
         IN IF m = None \/ v < m[1] THEN Some(v) ELSE m

RECURSIVE SqlMaxOf(_, _)
SqlMaxOf(rows, col) ==
    IF rows = <<>> THEN None
    ELSE LET m == SqlMaxOf(Tail(rows), col)
             v == Head(rows)[col]
         IN IF m = None \/ v > m[1] THEN Some(v) ELSE m

RECURSIVE SqlSumOf(_, _)
SqlSumOf(rows, col) ==
    IF rows = <<>> THEN None
    ELSE LET s == SqlSumOf(Tail(rows), col)
         IN IF s = None THEN Some(Head(rows)[col])
            ELSE Some(Head(rows)[col] + s[1])

(* func.avg(Score.score): the double nearest to sum/count, kept as the     *)
(* fraction it was computed from.                                          *)
SqlAvgOf(rows, col) ==
    IF rows = <<>> THEN None
    ELSE Some([num |-> SqlSumOf(rows, col)[1], den |-> Len(rows)])

(* Python's `x or 0`: None and 0 both give 0.                              *)
OrZero(scalar) == IF scalar = None THEN 0 ELSE scalar[1]

(* ----------------------- round(average_score, 1) ----------------------- *)

RECURSIVE Pow2(_)
Pow2(n) == IF n = 0 THEN 1 ELSE 2 * Pow2(n - 1)

(* The binary exponent e of k/20 > 0: 2^e <= k/20 < 2^(e+1).               *)
RECURSIVE ExponentUp(_, _)
ExponentUp(k, e) == IF 20 * Pow2(e + 1) <= k THEN ExponentUp(k, e + 1) ELSE e

RECURSIVE ExponentDown(_, _)
ExponentDown(k, m) == IF k * Pow2(m) >= 20 THEN 0 - m ELSE ExponentDown(k, m + 1)

Exponent20(k) == IF k >= 20 THEN ExponentUp(k, 0) ELSE ExponentDown(k, 1)

(* Whether the double nearest to k/20 (k odd, 5 not dividing k) lies above *)
(* k/20: its 53-bit significand is k * 2^(52-e) / 20 rounded to nearest,   *)
(* and the fraction dropped is (k * 2^(50-e) mod 5) / 5.                   *)
DoubleIsAbove(k) ==
    LET sh == (50 - Exponent20(k)) % 4
    IN (k * Pow2(sh)) % 5 >= 3

(* Mutant: halves always rounded up.                                       *)
Round1HalfUp(num, den) == (20 * num + den) \div (2 * den)

(* round(num/den, 1) in tenths, for num >= 0: the tenth nearest to the     *)
(* double nearest to num/den; a double exactly halfway goes to the even    *)
(* tenth.                                                                  *)
Round1(num, den) ==
    LET j == (10 * num) \div den
        r == (10 * num) % den
        k == 2 * j + 1
    IN IF 2 * r < den THEN j
       ELSE IF 2 * r > den THEN j + 1
       ELSE IF k % 5 = 0 THEN (IF j % 2 = 0 THEN j ELSE j + 1)
       ELSE IF DoubleIsAbove(k) THEN j + 1 ELSE j

(* `average_score or 0.0`, then round(average_score, 1).                   *)
RoundedAverage(avg) ==
    IF avg = None \/ avg[1].num = 0 THEN 0 ELSE Round1(avg[1].num, avg[1].den)

(* --------------------- routers/scores.py: responses -------------------- *)

HealthResponse == [status |-> "ok", message |-> "Snake Game API is running!"]

(* ScoreResponse built from the refreshed row (from_attributes).           *)
ScoreResponse(row) ==
    [ id |-> row.id, player_name |-> row.player_name, score |-> row.score,
      snake_length |-> row.snake_length,
      duration_seconds |-> row.duration_seconds,
      created_at |-> row.created_at ]

(* The list comprehension of get_leaderboard: rank is index + 1.           *)
LeaderboardEntries(scores) ==
    [ index \in 1..Len(scores) |->
        [ rank |-> index,
          player_name |-> scores[index].player_name,
          score |-> scores[index].score,
          created_at |-> scores[index].created_at ] ]

(* The limit the handler receives: the default when the query has none.    *)
LimitOf(param) == IF param = None THEN DefaultLimit ELSE param[1]

ZeroStats ==
    [ total_games |-> 0, best_score |-> 0, average_score |-> 0,
      total_play_time_seconds |-> 0, longest_snake |-> 0 ]

(* The StatsResponse get_stats builds from its five query results.         *)
StatsResponse(total_games, best_score, average_score, total_time, longest_snake) ==
    IF total_games = 0 THEN ZeroStats
    ELSE [ total_games |-> total_games,
           best_score |-> best_score,
           average_score |-> RoundedAverage(average_score),
           total_play_time_seconds |-> total_time,
           longest_snake |-> longest_snake ]

(* get_stats when all five queries read the same rows.                     *)
StatsOf(rows) ==
    StatsResponse(OrZero(SqlCount(rows)),
                  OrZero(SqlMaxOf(rows, "score")),
                  SqlAvgOf(rows, "score"),
                  OrZero(SqlSumOf(rows, "duration_seconds")),
                  OrZero(SqlMaxOf(rows, "snake_length")))

(* The table after the try block of create_score: a fault at add or at     *)
(* commit leaves the transaction open and db.rollback() undoes it; a fault *)
(* at refresh comes after the commit, where db.rollback() undoes nothing.  *)
StoreAfterCreate(rows, dump, fault) ==
    IF fault \in {"add", "commit"} THEN rows
    ELSE Append(rows, InsertRow(rows, dump))

(* What create_score answers: 201 and the row, or HTTPException 500.       *)
CreateResult(rows, dump, fault) ==
    IF fault = "none"
    THEN [status |-> 201, body |-> ScoreResponse(InsertRow(rows, dump))]
    ELSE [status |-> 500, body |-> fault]

(* ------------------- Spec: one worker, atomic handlers ----------------- *)

(* The worker processes that serve requests from the same SQLite file.     *)
Workers == {"w1", "w2"}

IdleLoc == [op |-> "idle"]

Init ==
    /\ store = <<>>
    /\ resp = [op |-> "none"]
    /\ pc = [w \in Workers |-> "idle"]
    /\ loc = [w \in Workers |-> IdleLoc]
    /\ returned = <<>>

HealthCheck ==
    /\ resp' = [op |-> "healthCheck", status |-> 200, body |-> HealthResponse]
    /\ UNCHANGED <<store, pc, loc, returned>>

(* POST /api/scores: pydantic validates the body before the handler runs.  *)
CreateScore(raw, fault) ==
    /\ IF ValidationErrors(raw) # {}
       THEN /\ resp' = [ op |-> "createScore", request |-> raw,
                         status |-> 422, body |-> ValidationErrors(raw) ]
            /\ store' = store
       ELSE /\ Len(store) < MaxRecords
            /\ store' = StoreAfterCreate(store, ModelDump(raw), fault)
            /\ resp' = [ op |-> "createScore", request |-> raw,
                         status |-> CreateResult(store, ModelDump(raw), fault).status,
                         body |-> CreateResult(store, ModelDump(raw), fault).body ]
    /\ UNCHANGED <<pc, loc, returned>>

(* Mutant: a read that removes the rows it returns from the table.         *)
GetLeaderboardConsuming(param) ==
    /\ resp' = [ op |-> "getLeaderboard", limit |-> LimitOf(param),
                 status |-> 200,
                 body |-> LeaderboardEntries(TopByScore(store, LimitOf(param))) ]
    /\ store' = SelectSeq(store, LAMBDA r :
                     \A i \in 1..Len(resp'.body) :
                         resp'.body[i].created_at # r.created_at)
    /\ UNCHANGED <<pc, loc, returned>>

(* GET /api/leaderboard                                                    *)
GetLeaderboard(param) ==
    /\ resp' = [ op |-> "getLeaderboard", limit |-> LimitOf(param),
                 status |-> 200,
                 body |-> LeaderboardEntries(TopByScore(store, LimitOf(param))) ]
    /\ UNCHANGED <<store, pc, loc, returned>>

(* GET /api/stats                                                          *)
GetStats ==
    /\ resp' = [ op |-> "getStats", status |-> 200, body |-> StatsOf(store),
                 lo |-> Len(store), hi |-> Len(store) ]
    /\ UNCHANGED <<store, pc, loc, returned>>

Next ==
    \/ HealthCheck
    \/ \E raw \in Requests, fault \in Faults : CreateScore(raw, fault)
    \/ \E param \in LimitParams : GetLeaderboard(param)
    \/ GetStats

Spec == Init /\ [][Next]_vars

(* ------------- SpecConc: workers interleave between statements --------- *)

InCreate(w) == pc[w] \in {"add", "commit", "refresh", "created", "failed"}

RECURSIVE MaxReturnedId(_)
MaxReturnedId(rets) ==
    IF rets = <<>> THEN 0
    ELSE LET m == MaxReturnedId(Tail(rets))
         IN IF Head(rets).id > m THEN Head(rets).id ELSE m

(* A request for POST /api/scores arrives at worker w; an invalid body is  *)
(* answered 422 by pydantic and the handler never runs.                    *)
StartCreate(w, raw) ==
    /\ pc[w] = "idle"
    /\ IF ValidationErrors(raw) # {}
       THEN /\ resp' = [ op |-> "createScore", request |-> raw,
                         status |-> 422, body |-> ValidationErrors(raw) ]
            /\ UNCHANGED <<pc, loc>>
       ELSE /\ Len(store) + Cardinality({ v \in Workers : InCreate(v) })
                 < MaxConcRecords
            /\ pc' = [pc EXCEPT ![w] = "add"]
            /\ loc' = [loc EXCEPT ![w] =
                          [ op |-> "createScore", request |-> raw,
                            dump |-> ModelDump(raw),
                            floor |-> MaxReturnedId(returned),
                            fault |-> "none", row |-> None ]]
            /\ resp' = resp
    /\ UNCHANGED <<store, returned>>

(* db.add(db_score): the object becomes pending in the session.            *)
Add(w, fault) ==
    /\ pc[w] = "add"
    /\ pc' = [pc EXCEPT ![w] = IF fault = "add" THEN "failed" ELSE "commit"]
    /\ loc' = [loc EXCEPT ![w].fault = fault]
    /\ UNCHANGED <<store, resp, returned>>

(* db.commit(): the flush INSERTs the row and COMMIT makes it visible, as  *)
(* one write transaction under SQLite's write lock; on a fault the         *)
(* except branch rolls the transaction back.                               *)
Commit(w, fault) ==
    /\ pc[w] = "commit"
    /\ store' = StoreAfterCreate(store, loc[w].dump, fault)
    /\ pc' = [pc EXCEPT ![w] = IF fault = "commit" THEN "failed" ELSE "refresh"]
    /\ loc' = [loc EXCEPT ![w].fault = fault,
                           ![w].row = IF fault = "commit" THEN None
                                      ELSE Some(InsertRow(store, loc[w].dump))]
    /\ UNCHANGED <<resp, returned>>

(* db.refresh(db_score): reloads the row by its primary key.               *)
Refresh(w, fault) ==
    /\ pc[w] = "refresh"
    /\ pc' = [pc EXCEPT ![w] = IF fault = "refresh" THEN "failed" ELSE "created"]
    /\ loc' = [loc EXCEPT ![w].fault = fault]
    /\ UNCHANGED <<store, resp, returned>>

(* return db_score: 201 with the row.                                      *)
ReturnCreated(w) ==
    /\ pc[w] = "created"
    /\ resp' = [ op |-> "createScore", request |-> loc[w].request,
                 status |-> 201, body |-> ScoreResponse(loc[w].row[1]) ]
    /\ returned' = Append(returned, [id |-> loc[w].row[1].id, floor |-> loc[w].floor])
    /\ pc' = [pc EXCEPT ![w] = "idle"]
    /\ loc' = [loc EXCEPT ![w] = IdleLoc]
    /\ store' = store

(* except Exception: db.rollback(); raise HTTPException(500).              *)
ReturnFailed(w) ==
    /\ pc[w] = "failed"
    /\ resp' = [ op |-> "createScore", request |-> loc[w].request,
                 status |-> 500, body |-> loc[w].fault ]
    /\ pc' = [pc EXCEPT ![w] = "idle"]
    /\ loc' = [loc EXCEPT ![w] = IdleLoc]
    /\ UNCHANGED <<store, returned>>

(* get_stats, first statement: count(id); an empty table answers at once.  *)
QueryCount(w) ==
    /\ pc[w] = "idle"
    /\ IF OrZero(SqlCount(store)) = 0
       THEN /\ resp' = [ op |-> "getStats", status |-> 200,
                         body |-> StatsResponse(0, 0, None, 0, 0),
                         lo |-> Len(store), hi |-> Len(store) ]
            /\ UNCHANGED <<pc, loc>>
       ELSE /\ pc' = [pc EXCEPT ![w] = "best"]
            /\ loc' = [loc EXCEPT ![w] =
                          [ op |-> "getStats", lo |-> Len(store),
                            total_games |-> OrZero(SqlCount(store)),
                            best_score |-> 0, average_score |-> None,
                            total_time |-> 0 ]]
            /\ resp' = resp
    /\ UNCHANGED <<store, returned>>

(* max(score)                                                              *)
QueryBest(w) ==
    /\ pc[w] = "best"
    /\ pc' = [pc EXCEPT ![w] = "avg"]
    /\ loc' = [loc EXCEPT ![w].best_score = OrZero(SqlMaxOf(store, "score"))]
    /\ UNCHANGED <<store, resp, returned>>

(* avg(score)                                                              *)
QueryAvg(w) ==
    /\ pc[w] = "avg"
    /\ pc' = [pc EXCEPT ![w] = "sum"]
    /\ loc' = [loc EXCEPT ![w].average_score = SqlAvgOf(store, "score")]
    /\ UNCHANGED <<store, resp, returned>>

(* sum(duration_seconds)                                                   *)
QuerySum(w) ==
    /\ pc[w] = "sum"
    /\ pc' = [pc EXCEPT ![w] = "longest"]
    /\ loc' = [loc EXCEPT ![w].total_time =
                  OrZero(SqlSumOf(store, "duration_seconds"))]
    /\ UNCHANGED <<store, resp, returned>>

(* max(snake_length), then the StatsResponse is returned.                  *)
QueryLongest(w) ==
    /\ pc[w] = "longest"
    /\ resp' = [ op |-> "getStats", status |-> 200,
                 body |-> StatsResponse(loc[w].total_games, loc[w].best_score,
                                        loc[w].average_score, loc[w].total_time,
                                        OrZero(SqlMaxOf(store, "snake_length"))),
                 lo |-> loc[w].lo, hi |-> Len(store) ]
    /\ pc' = [pc EXCEPT ![w] = "idle"]
    /\ loc' = [loc EXCEPT ![w] = IdleLoc]
    /\ UNCHANGED <<store, returned>>

(* get_leaderboard is one statement.                                       *)
QueryTop(w, param) ==
    /\ pc[w] = "idle"
    /\ GetLeaderboard(param)

NextConc ==
    \/ \E w \in Workers, raw \in ConcRequests : StartCreate(w, raw)
    \/ \E w \in Workers, fault \in {"none", "add"} : Add(w, fault)
    \/ \E w \in Workers, fault \in {"none", "commit"} : Commit(w, fault)
    \/ \E w \in Workers, fault \in {"none", "refresh"} : Refresh(w, fault)
    \/ \E w \in Workers : ReturnCreated(w)
    \/ \E w \in Workers : ReturnFailed(w)
    \/ \E w \in Workers : QueryCount(w)
    \/ \E w \in Workers : QueryBest(w)
    \/ \E w \in Workers : QueryAvg(w)
    \/ \E w \in Workers : QuerySum(w)
    \/ \E w \in Workers : QueryLongest(w)
    \/ \E w \in Workers, param \in LimitParams : QueryTop(w, param)

SpecConc == Init /\ [][NextConc]_vars

(* ============================== claims ================================= *)

(* The constraint violations the contract names, read off the request.     *)
ViolatesConstraints(raw) ==
    \/ "score" \in DOMAIN raw /\ raw.score < 0
    \/ "snake_length" \in DOMAIN raw /\ raw.snake_length < 1
    \/ "duration_seconds" \in DOMAIN raw /\ raw.duration_seconds < 0
    \/ /\ "player_name" \in DOMAIN raw
       /\ raw.player_name # <<>>
       /\ Len(raw.player_name[1]) > 100

(* C1: a createScore request with score < 0, snakeLength < 1,              *)
(* durationSeconds < 0 or a playerName longer than 100 characters is       *)
(* answered with a validation error and the step leaves the stored records *)
(* as they were.                                                           *)
C1_InvalidRejected ==
    [][ (resp'.op = "createScore" /\ ViolatesConstraints(resp'.request))
            => (resp'.status = 422 /\ store' = store) ]_vars

C1_Witness ==
    /\ resp.op = "createScore"
    /\ ViolatesConstraints(resp.request)
    /\ resp.status = 422
    /\ resp.body = {"player_name"}
    /\ Len(store) >= 2

(* The stored records that come before record k in the ranking: a higher   *)
(* score, or the same score and inserted earlier.                          *)
Ahead(k) ==
    { j \in 1..Len(store) :
        \/ store[j].score > store[k].score
        \/ store[j].score = store[k].score /\ j < k }

C3_NonPositiveLimitEmpty ==
    (resp.op = "getLeaderboard" /\ resp.limit <= 0) =>
        (resp.status = 200 /\ resp.body = <<>>)

(* C4: whenever createScore ends with a failure reported to the caller (a  *)
(* storage fault at add, commit or refresh), the stored records are        *)
(* exactly those from before the call.                                     *)
C4_FailureRollsBack ==
    [][ (resp'.op = "createScore" /\ resp'.status = 500) => store' = store ]_vars

(* C5: the ids of the records returned by successful createScore calls are *)
(* pairwise distinct, a call that starts after another has returned gets a *)
(* strictly larger id, and the id of a stored record never changes.        *)
C5_IdsUniqueIncreasing ==
    /\ [](\A i, j \in 1..Len(returned) :
              i # j => returned[i].id # returned[j].id)
    /\ [](\A i \in 1..Len(returned) : returned[i].id > returned[i].floor)
    /\ [][ /\ Len(store') >= Len(store)
           /\ \A i \in 1..Len(store) : store'[i].id = store[i].id ]_vars

C5_Witness ==
    /\ Len(returned) = 2
    /\ returned[1].floor = 0
    /\ returned[2].floor = 0
    /\ returned[1].id > returned[2].id

(* C6: every stored record has score >= 0, snakeLength >= 1,               *)
(* durationSeconds >= 0 and a playerName that is non-empty and at most 100 *)
(* characters long.                                                        *)
C6_StoredFieldConstraints ==
    \A i \in 1..Len(store) :
        /\ store[i].score >= 0
        /\ store[i].snake_length >= 1
        /\ store[i].duration_seconds >= 0
        /\ store[i].player_name # ""
        /\ Len(store[i].player_name) <= 100

(* The sum of a column over the stored records.                            *)
ColumnTotal(col) ==
    LET acc[i \in 0..Len(store)] ==
            IF i = 0 THEN 0 ELSE acc[i - 1] + store[i][col]
    IN acc[Len(store)]

IsLargest(v, col) ==
    /\ \E i \in 1..Len(store) : store[i][col] = v
    /\ \A i \in 1..Len(store) : store[i][col] <= v

(* C7: getStats never fails; on an empty store every field is zero, and on *)
(* a non-empty store totalGames is the number of records, bestScore the    *)
(* largest score, totalPlayTimeSeconds the sum of the durations and        *)
(* longestSnake the largest snakeLength.                                   *)
C7_StatsAggregates ==
    resp.op = "getStats" =>
        /\ resp.status = 200
        /\ store = <<>> =>
               resp.body = [ total_games |-> 0, best_score |-> 0,
                             average_score |-> 0,
                             total_play_time_seconds |-> 0,
                             longest_snake |-> 0 ]
        /\ store # <<>> =>
               /\ resp.body.total_games = Len(store)
               /\ IsLargest(resp.body.best_score, "score")
               /\ resp.body.total_play_time_seconds =
                      ColumnTotal("duration_seconds")
               /\ IsLargest(resp.body.longest_snake, "snake_length")

C7_Witness ==
    /\ resp.op = "getStats"
    /\ Len(store) = 3
    /\ resp.body.best_score = 2
    /\ resp.body.total_play_time_seconds = 7
    /\ resp.body.longest_snake = 4
    /\ store[3].snake_length = 1

(* C8 as stated: averageScore is the mean of the stored scores rounded to  *)
(* one decimal place with halves rounded away from zero (in tenths:        *)
(* floor(10 * mean + 1/2)).                                                *)
C8_HalfAwayFromZero ==
    (resp.op = "getStats" /\ store # <<>>) =>
        resp.body.average_score =
            (20 * ColumnTotal("score") + Len(store)) \div (2 * Len(store))

(* C8 amended: averageScore is a tenth nearest to the mean of the stored   *)
(* scores, and when the mean is exactly halfway between two tenths and     *)
(* exactly representable in binary (it ends in .25 or .75) it is the even  *)
(* tenth: 0.25 is reported as 0.2, 0.75 as 0.8.                            *)
C8_AverageRounding ==
    (resp.op = "getStats" /\ store # <<>>) =>
        LET total == ColumnTotal("score")
            n == Len(store)
            t == resp.body.average_score
            d == 10 * total - t * n
            dist == IF d < 0 THEN 0 - d ELSE d
        IN /\ 2 * dist <= n
           /\ (2 * dist = n /\ ((20 * total) \div n) % 5 = 0) => t % 2 = 0

C8_Witness ==
    /\ resp.op = "getStats"
    /\ Len(store) = 4
    /\ ColumnTotal("score") = 1
    /\ resp.body.average_score = 2

C10_StatsFromOneState ==
    resp.op = "getStats" =>
        \E k \in resp.lo..resp.hi : resp.body = StatsOf(SubSeq(store, 1, k))
====
